---- MODULE Spec2Model ----
(***************************************************************************)
(* A model of the card-game repository: the CSV deck reader                *)
(* (src/src/FileReader.cpp), the ordering of cards (src/include/Card.h),   *)
(* the deck container and the round logger (src/src/FileWriter.cpp).       *)
(*                                                                         *)
(* A std::string is a sequence of one-character strings, so that find,     *)
(* substr, operator== and std::stoi are computed character by character.   *)
(***************************************************************************)
EXTENDS Integers, Sequences, FiniteSets, TLC

VARIABLES path, canOpen, src, pc, lineNo, deck, result,
          decks, added, drawn, lastDraw,
          file, canWrite, writer, calls,
          ca, cb, cc, cmp

readerVars == <<path, canOpen, src, pc, lineNo, deck, result>>
deckVars   == <<decks, added, drawn, lastDraw>>
writerVars == <<file, canWrite, writer, calls>>
cardVars   == <<ca, cb, cc, cmp>>
vars       == <<readerVars, deckVars, writerVars, cardVars>>

(***************************************************************************)
(* Bounds of the model.                                                    *)
(***************************************************************************)
MaxLines  == 3
MaxAdds   == 3
MaxWrites == 2

(***************************************************************************)
(* Strings.                                                                *)
(***************************************************************************)
Digits == <<"0", "1", "2", "3", "4", "5", "6", "7", "8", "9">>

isdigit(c) == \E k \in 1..10 : Digits[k] = c

DigitVal(c) == (CHOOSE k \in 1..10 : Digits[k] = c) - 1

\* The vertical tab, character 0x0B, which has no TLA+ escape: the literal
\* holds the character itself.
VT == ""

\* isspace of the "C" locale: space, \t, \n, \v, \f, \r.
isspace(c) == c \in {" ", "\t", "\n", VT, "\f", "\r"}

npos == -1

\* std::string::find(ch): the 0-based position of the first ch, or npos.
find(s, ch) ==
    IF \E k \in 1..Len(s) : s[k] = ch
    THEN (CHOOSE k \in 1..Len(s) : s[k] = ch /\ \A j \in 1..(k - 1) : s[j] # ch) - 1
    ELSE npos

\* std::string::substr(pos, n) and substr(pos), pos 0-based and pos <= size().
substr2(s, pos, n) == SubSeq(s, pos + 1, IF pos + n > Len(s) THEN Len(s) ELSE pos + n)

substr1(s, pos) == SubSeq(s, pos + 1, Len(s))

INT_MAX == 2147483647

\* The number of leading characters of s, from 1-based index k, that satisfy
\* the test: whitespace (ws = TRUE) or digits (ws = FALSE).
RECURSIVE Run(_, _, _)
Run(s, k, ws) ==
    IF k > Len(s) THEN 0
    ELSE IF (ws /\ isspace(s[k])) \/ (~ws /\ isdigit(s[k]))
         THEN 1 + Run(s, k + 1, ws)
         ELSE 0

\* The magnitude of the digit string s[from..to], most significant digit
\* first, accumulated digit by digit against the int limit: lim is INT_MAX
\* for a positive number and INT_MAX + 1 = -INT_MIN for a negative one,
\* given as its quotient and remainder by 10.  -1 when the limit is passed.
RECURSIVE Magnitude(_, _, _, _, _)
Magnitude(s, from, to, cutoff, cutlim) ==
    IF to < from THEN 0
    ELSE LET acc == Magnitude(s, from, to - 1, cutoff, cutlim)
             d   == DigitVal(s[to])
         IN  IF acc < 0 \/ acc > cutoff \/ (acc = cutoff /\ d > cutlim)
             THEN -1
             ELSE IF acc = cutoff /\ d = cutlim /\ cutlim = (INT_MAX % 10) + 1
                  THEN -2
                  ELSE 10 * acc + d

\* std::stoi(s), base 10, no position out-parameter: leading whitespace is
\* skipped, one sign is accepted, the longest run of digits is converted and
\* whatever follows it is ignored.  No digits: std::invalid_argument; a value
\* that does not fit an int: std::out_of_range.
stoi(s) ==
    LET w     == Run(s, 1, TRUE)
        signd == w + 1 <= Len(s) /\ s[w + 1] \in {"+", "-"}
        neg   == signd /\ s[w + 1] = "-"
        d0    == IF signd THEN w + 2 ELSE w + 1
        nd    == Run(s, d0, FALSE)
        mag   == Magnitude(s, d0, d0 + nd - 1, INT_MAX \div 10,
                           IF neg THEN (INT_MAX % 10) + 1 ELSE INT_MAX % 10)
    IN  IF nd = 0 THEN [ok |-> FALSE, what |-> "std::invalid_argument"]
        ELSE IF mag = -1 THEN [ok |-> FALSE, what |-> "std::out_of_range"]
        ELSE IF mag = -2 THEN [ok |-> TRUE, val |-> (0 - INT_MAX) - 1]
        ELSE [ok |-> TRUE, val |-> IF neg THEN 0 - mag ELSE mag]

(***************************************************************************)
(* Cards.  Card.h declares value() and print() pure virtual and defines    *)
(* the two comparisons; the three variants are constructed by the reader.  *)
(***************************************************************************)
JokerCard(label) == [variant |-> "JokerCard", label |-> label]

FaceCard(suit, rank) == [variant |-> "FaceCard", suit |-> suit, rank |-> rank]

PlayingCard(suit, rank) == [variant |-> "PlayingCard", suit |-> suit, rank |-> rank]

JokerValue == 14

value(c) == IF c.variant = "JokerCard" THEN JokerValue ELSE c.rank

LessOrEqual(a, b) == value(a) <= value(b)

\* Card::operator<
Less(a, b) == value(a) < value(b)

\* Card::operator==
Equal(a, b) == value(a) = value(b)

(***************************************************************************)
(* FileReader::readDeckFromCSV.                                            *)
(***************************************************************************)
Joker == <<"J", "o", "k", "e", "r">>

MalformedMsg == "Malformed CSV input"
EmptyMsg     == "Empty of invalid CSV deck"
OpenMsg      == "Failed to open input deck: "

Throw(type, what) == [kind |-> "throw", type |-> type, what |-> what]

Return(d) == [kind |-> "return", deck |-> d]

Running == [kind |-> "running"]

openFailureInsideTry(p) == Throw("std::runtime_error", MalformedMsg)

\* line 16: thrown before the try block is entered.
openFailure(p) == Throw("std::runtime_error", OpenMsg \o p)

isJokerAnyCase(suit) ==
    /\ Len(suit) = 5
    /\ suit[1] \in {"J", "j"} /\ suit[2] \in {"O", "o"} /\ suit[3] \in {"K", "k"}
    /\ suit[4] \in {"E", "e"} /\ suit[5] \in {"R", "r"}

\* line 33: std::string operator== against the literal.
isJoker(suit) == suit = Joker

rankedCardFaceAbove11(suit, rank) ==
    IF rank > 11 THEN FaceCard(suit, rank) ELSE PlayingCard(suit, rank)

\* lines 40-43.
rankedCard(suit, rank) ==
    IF rank >= 11 THEN FaceCard(suit, rank) ELSE PlayingCard(suit, rank)

\* Lines 21-44, one iteration of the loop body: "skip" for the continue, the
\* card handed to addCard, or the exception that leaves the body.
lineBody(line) ==
    IF line = <<>> THEN [kind |-> "skip"]
    ELSE LET commaPos == find(line, ",")
         IN  IF commaPos = npos
             THEN Throw("std::runtime_error", MalformedMsg)
             ELSE LET suit == substr2(line, 0, commaPos)
                      val  == substr1(line, commaPos + 1)
                  IN  IF suit = <<>> \/ val = <<>>
                      THEN Throw("std::runtime_error", MalformedMsg)
                      ELSE IF isJoker(suit)
                           THEN [kind |-> "card", card |-> JokerCard(val)]
                           ELSE LET r == stoi(val)
                                IN  IF ~r.ok
                                    THEN Throw(r.what, "stoi")
                                    ELSE IF r.val < 1 \/ r.val > 13
                                         THEN Throw("std::runtime_error", MalformedMsg)
                                         ELSE [kind |-> "card",
                                               card |-> rankedCard(suit, r.val)]

\* lines 46-48: whatever was thrown inside the try is replaced.
catchAll(e) == Throw("std::runtime_error", MalformedMsg)

\* Deck::sizer and Deck::addCard, as the reader uses them.
sizer(d) == Len(d)

addCard(d, c) == Append(d, c)

afterLoopNoCheck(d) == Return(d)

\* lines 50-53.
afterLoop(d) ==
    IF sizer(d) = 0 THEN Throw("std::runtime_error", EmptyMsg) ELSE Return(d)

(***************************************************************************)
(* The inputs of the reader: file contents as the lines std::getline       *)
(* yields.  CoreLines make up the sources of several lines; every line of  *)
(* AllLines is also read as a source of its own.                           *)
(***************************************************************************)
Comma == <<",">>

Lefts == { <<>>, <<"H">>, Joker, <<"j", "o", "k", "e", "r">>,
           <<"J", "O", "K", "E", "R">>, <<" ", "J", "o", "k", "e", "r">> }

Rights == { <<>>, <<"1">>, <<"5">>, <<"1", "0">>, <<"1", "1">>, <<"1", "3">>,
            <<"1", "4">>, <<"0">>, <<"R">>, <<"5", "x">>, <<"x", "5">>,
            <<" ", "5">>, <<"5", " ">>, <<"7", ",", "8">>, <<"-", "1">>,
            <<"+", "5">>, <<"0", "5">>, <<VT, "5">>, <<" ", VT, "\t", "7">>,
            <<"9", "9", "9", "9", "9", "9", "9", "9", "9", "9">> }

AllLines ==
    { <<>>, <<"H">>, <<" ">>, <<"5">> }
      \cup { l \o Comma \o r : l \in Lefts, r \in Rights }

CoreLines ==
    { <<>>,
      <<"H">>,
      <<"H", ",", "1">>,
      <<"H", ",", "1", "2">>,
      <<"H", ",", "1", "4">>,
      <<"H", ",", "5", "x">>,
      <<"H", ",", "x">>,
      Joker \o <<",", "R">>,
      Joker \o <<",">>,
      <<"j", "o", "k", "e", "r", ",", "5">> }

SeqsUpTo(S, n) == UNION { [1..k -> S] : k \in 0..n }

Sources == SeqsUpTo(CoreLines, MaxLines) \cup { <<l>> : l \in AllLines }

Paths == { "a.csv" }

NoCard == [variant |-> "none"]

ReaderInit ==
    /\ path \in Paths
    /\ canOpen \in BOOLEAN
    /\ src \in Sources
    /\ pc = "open"
    /\ lineNo = 0
    /\ deck = <<>>
    /\ result = Running

ReaderIdle ==
    /\ path = "a.csv"
    /\ canOpen = FALSE
    /\ src = <<>>
    /\ pc = "idle"
    /\ lineNo = 0
    /\ deck = <<>>
    /\ result = Running

\* lines 13-16: the deck is constructed, the file is opened.
Open ==
    /\ pc = "open"
    /\ IF canOpen
       THEN /\ pc' = "loop"
            /\ UNCHANGED result
       ELSE /\ pc' = "done"
            /\ result' = openFailure(path)
    /\ UNCHANGED <<path, canOpen, src, lineNo, deck>>

\* lines 20-48: getline yields the next line and the loop body runs on it.
\* An exception unwinds the function: the local deck is destroyed.
ReadLine ==
    /\ pc = "loop"
    /\ lineNo < Len(src)
    /\ lineNo' = lineNo + 1
    /\ LET o == lineBody(src[lineNo + 1])
       IN  CASE o.kind = "skip" ->
                  UNCHANGED <<pc, deck, result>>
             [] o.kind = "card" ->
                  /\ deck' = addCard(deck, o.card)
                  /\ UNCHANGED <<pc, result>>
             [] o.kind = "throw" ->
                  /\ result' = catchAll(o)
                  /\ deck' = <<>>
                  /\ pc' = "done"
    /\ UNCHANGED <<path, canOpen, src>>

\* lines 20, 50-53: getline fails at the end of the file, the loop ends.
EndOfFile ==
    /\ pc = "loop"
    /\ lineNo = Len(src)
    /\ result' = afterLoop(deck)
    /\ deck' = <<>>
    /\ pc' = "done"
    /\ UNCHANGED <<path, canOpen, src, lineNo>>

(***************************************************************************)
(* The deck container: two decks, "A" and "B", each a sequence whose first *)
(* element is the top.  added and drawn record, per deck, the cards handed *)
(* to addToBottom and the cards drawFromTop returned, in call order.       *)
(***************************************************************************)
DeckIds == { "A", "B" }

DeckCards == { PlayingCard("Hearts", 2), JokerCard("Red") }

NoDraw == [kind |-> "none"]

size(d) == Len(d)

addToTop(d, c) == <<c>> \o d

addToBottom(d, c) == Append(d, c)

drawFromTopOrSilent(d) ==
    IF size(d) = 0
    THEN [deck |-> d, out |-> [kind |-> "card", card |-> NoCard]]
    ELSE [deck |-> Tail(d), out |-> [kind |-> "card", card |-> Head(d)]]

\* The deck left behind and what the caller gets: the top card, or EmptyDeck.
drawFromTop(d) ==
    IF size(d) = 0
    THEN [deck |-> d, out |-> Throw("EmptyDeck", "EmptyDeck")]
    ELSE [deck |-> Tail(d), out |-> [kind |-> "card", card |-> Head(d)]]

Empties == [i \in DeckIds |-> <<>>]

DeckInit ==
    /\ decks = Empties
    /\ added = Empties
    /\ drawn = Empties
    /\ lastDraw = NoDraw

AddToBottom(i, c) ==
    /\ Len(added[i]) < MaxAdds
    /\ decks' = [decks EXCEPT ![i] = addToBottom(@, c)]
    /\ added' = [added EXCEPT ![i] = Append(@, c)]
    /\ UNCHANGED <<drawn, lastDraw>>

DrawFromTop(i) ==
    LET r == drawFromTop(decks[i])
    IN  /\ decks' = [decks EXCEPT ![i] = r.deck]
        /\ lastDraw' = [kind |-> "draw", from |-> i, out |-> r.out]
        /\ drawn' = IF r.out.kind = "card"
                    THEN [drawn EXCEPT ![i] = Append(@, r.out.card)]
                    ELSE drawn
        /\ UNCHANGED added

(***************************************************************************)
(* FileWriter.  The log is the sequence of lines written to the stream;    *)
(* a line is the sequence of the items inserted with operator<<.           *)
(***************************************************************************)
RECURSIVE NatToString(_)
NatToString(n) ==
    IF n < 10 THEN Digits[n + 1]
    ELSE NatToString(n \div 10) \o Digits[(n % 10) + 1]

\* operator<<(std::ostream&, int)
IntToString(n) == IF n < 0 THEN "-" \o NatToString(0 - n) ELSE NatToString(n)

FaceName(rank) ==
    CASE rank = 11 -> "Jack" [] rank = 12 -> "Queen" [] rank = 13 -> "King"
      [] OTHER -> IntToString(rank)

\* Card::print of the three variants.
print(c) ==
    CASE c.variant = "JokerCard"   -> "Joker:" \o c.label
      [] c.variant = "FaceCard"    -> c.suit \o FaceName(c.rank)
      [] c.variant = "PlayingCard" -> c.suit \o IntToString(c.rank)

\* operator<<(std::ostream&, const Deck&): the cards' renderings, top first.
RECURSIVE render(_)
render(d) == IF d = <<>> THEN "" ELSE print(Head(d)) \o render(Tail(d))

Header == "Round,PlayerA_Count,PlayerB_Count,PlayerA_Cards,PlayerB_Cards"

openAppend(old) == Append(old, <<Header>>)

\* lines 11-14: std::ios::trunc empties the file, then the header is written.
openTruncate(old) == <<  <<Header>>  >>

\* line 18.
roundLine(round, a, b) ==
    << IntToString(round), ",", IntToString(size(a)), ",", IntToString(size(b)),
       ",\"", render(a), "\",\"", render(b), "\"" >>

RoundValues == { -3, 12 }

PriorContents == { <<>>, << <<"old line">>, <<"another">> >> }

ScenarioDeck == << PlayingCard("Hearts", 2), JokerCard("Red"), FaceCard("Clubs", 12) >>

WriterDecks == { [A |-> ScenarioDeck, B |-> <<JokerCard("Black")>>],
                 [A |-> <<>>, B |-> <<PlayingCard("Spades", 10), FaceCard("Clubs", 13)>>] }

WriterInit ==
    /\ file \in PriorContents
    /\ canWrite \in BOOLEAN
    /\ writer = "none"
    /\ calls = <<>>

\* FileWriter::FileWriter
NewFileWriter ==
    /\ writer = "none"
    /\ IF canWrite
       THEN /\ file' = openTruncate(file)
            /\ writer' = "open"
       ELSE /\ writer' = "threw"
            /\ UNCHANGED file
    /\ UNCHANGED <<canWrite, calls>>

\* FileWriter::writeRound
WriteRound(round) ==
    /\ writer = "open"
    /\ Len(calls) < MaxWrites
    /\ file' = Append(file, roundLine(round, decks["A"], decks["B"]))
    /\ calls' = Append(calls, [round |-> round, a |-> decks["A"], b |-> decks["B"]])
    /\ UNCHANGED <<canWrite, writer>>

(***************************************************************************)
(* Comparing three cards.                                                  *)
(***************************************************************************)
Suits == { "Hearts", "Clubs" }

AllCards ==
    { PlayingCard(s, r) : s \in Suits, r \in 1..10 }
      \cup { FaceCard(s, r) : s \in Suits, r \in 11..13 }
      \cup { JokerCard(l) : l \in { "Red", "Black" } }

NoCmp == [done |-> FALSE]

CardInit ==
    /\ ca \in AllCards
    /\ cb \in AllCards
    /\ cc \in AllCards
    /\ cmp = NoCmp

Compare ==
    /\ cmp = NoCmp
    /\ cmp' = [done |-> TRUE,
               ab |-> Less(ca, cb), ba |-> Less(cb, ca), eqab |-> Equal(ca, cb),
               bc |-> Less(cb, cc), ac |-> Less(ca, cc), eqba |-> Equal(cb, ca)]
    /\ UNCHANGED <<ca, cb, cc>>

(***************************************************************************)
(* The four specifications.                                                *)
(***************************************************************************)
DeckIdle ==
    /\ decks = Empties
    /\ added = Empties
    /\ drawn = Empties
    /\ lastDraw = NoDraw

WriterIdle ==
    /\ file = <<>>
    /\ canWrite = FALSE
    /\ writer = "idle"
    /\ calls = <<>>

CardIdle ==
    /\ ca = NoCard
    /\ cb = NoCard
    /\ cc = NoCard
    /\ cmp = NoCmp

\* The reader on every source of Sources.
Init == ReaderInit /\ DeckIdle /\ WriterIdle /\ CardIdle

Next ==
    \/ Open /\ UNCHANGED <<deckVars, writerVars, cardVars>>
    \/ ReadLine /\ UNCHANGED <<deckVars, writerVars, cardVars>>
    \/ EndOfFile /\ UNCHANGED <<deckVars, writerVars, cardVars>>

Spec == Init /\ [][Next]_vars

\* Two decks under every interleaving of addToBottom and drawFromTop.
DeckSpecInit == ReaderIdle /\ DeckInit /\ WriterIdle /\ CardIdle

DeckSpecNext ==
    \/ (\E i \in DeckIds, c \in DeckCards : AddToBottom(i, c))
          /\ UNCHANGED <<readerVars, writerVars, cardVars>>
    \/ (\E i \in DeckIds : DrawFromTop(i))
          /\ UNCHANGED <<readerVars, writerVars, cardVars>>

DeckSpec == DeckSpecInit /\ [][DeckSpecNext]_vars

\* The round logger, with draws from the two decks between the rounds.
WriterSpecInit ==
    /\ ReaderIdle
    /\ decks \in WriterDecks
    /\ added = decks
    /\ drawn = Empties
    /\ lastDraw = NoDraw
    /\ WriterInit
    /\ CardIdle

WriterSpecNext ==
    \/ NewFileWriter /\ UNCHANGED <<readerVars, deckVars, cardVars>>
    \/ (\E round \in RoundValues : WriteRound(round))
          /\ UNCHANGED <<readerVars, deckVars, cardVars>>
    \/ (\E i \in DeckIds : DrawFromTop(i))
          /\ UNCHANGED <<readerVars, writerVars, cardVars>>

WriterSpec == WriterSpecInit /\ [][WriterSpecNext]_vars

\* The comparisons of Card.h on every triple of cards.
CardSpecInit == ReaderIdle /\ DeckIdle /\ WriterIdle /\ CardInit

CardSpecNext == Compare /\ UNCHANGED <<readerVars, deckVars, writerVars>>

CardSpec == CardSpecInit /\ [][CardSpecNext]_vars

(***************************************************************************)
(* The format of the input as the specification states it, written without *)
(* the reader's operators: a line is <left>,<right>, split at the first    *)
(* comma; a rank is a base-10 integer string denoting 1..13 (a plus sign   *)
(* and leading zeros are let through, nothing else is).                    *)
(***************************************************************************)
HasComma(l) == \E k \in 1..Len(l) : l[k] = ","

FirstComma(l) == CHOOSE k \in 1..Len(l) : l[k] = "," /\ \A j \in 1..(k - 1) : l[j] # ","

LeftField(l) == [k \in 1..(FirstComma(l) - 1) |-> l[k]]

RightField(l) == [k \in 1..(Len(l) - FirstComma(l)) |-> l[FirstComma(l) + k]]

RankStrings ==
    << <<"1">>, <<"2">>, <<"3">>, <<"4">>, <<"5">>, <<"6">>, <<"7">>, <<"8">>,
       <<"9">>, <<"1", "0">>, <<"1", "1">>, <<"1", "2">>, <<"1", "3">> >>

RECURSIVE StripZeros(_)
StripZeros(s) == IF s # <<>> /\ Head(s) = "0" THEN StripZeros(Tail(s)) ELSE s

Unsigned(s) == IF s # <<>> /\ Head(s) = "+" THEN Tail(s) ELSE s

IsRankString(s) == \E r \in 1..13 : StripZeros(Unsigned(s)) = RankStrings[r]

RankOf(s) == CHOOSE r \in 1..13 : StripZeros(Unsigned(s)) = RankStrings[r]

IsJokerLine(l) == HasComma(l) /\ LeftField(l) = Joker /\ RightField(l) # <<>>

IsRankLine(l) ==
    /\ HasComma(l)
    /\ LeftField(l) # <<>>
    /\ LeftField(l) # Joker
    /\ IsRankString(RightField(l))

ValidLine(l) == l = <<>> \/ IsJokerLine(l) \/ IsRankLine(l)

\* The card a valid, non-empty line stands for.
CardOfLine(l) ==
    IF IsJokerLine(l) THEN JokerCard(RightField(l))
    ELSE IF RankOf(RightField(l)) >= 11
         THEN FaceCard(LeftField(l), RankOf(RightField(l)))
         ELSE PlayingCard(LeftField(l), RankOf(RightField(l)))

\* One card per non-empty line, in line order.
RECURSIVE CardsOf(_)
CardsOf(ls) ==
    IF ls = <<>> THEN <<>>
    ELSE IF Head(ls) = <<>> THEN CardsOf(Tail(ls))
         ELSE <<CardOfLine(Head(ls))>> \o CardsOf(Tail(ls))

AllValid(ls) == \A k \in 1..Len(ls) : ValidLine(ls[k])

AllEmpty(ls) == \A k \in 1..Len(ls) : ls[k] = <<>>

Finished == pc = "done" /\ canOpen

Malformed == Throw("std::runtime_error", MalformedMsg)

EmptySource == Throw("std::runtime_error", EmptyMsg)

(***************************************************************************)
(* Claims about the reader, checked under Spec.                            *)
(***************************************************************************)

\* C1: for every readable source, if some non-empty line fails validation
\* (no comma, an empty left or right field, or, on a non-Joker line, a right
\* field that is not a rank in 1..13), the call fails with MalformedInput and
\* returns no deck, wherever the bad line is and whatever lines surround it.
C1_BadLineRejectsSource ==
    (Finished /\ ~AllValid(src)) => result = Malformed

\* C2, as stated: for every readable source whose lines are all valid, the
\* call returns the deck of one card per non-empty line, in line order, so
\* its size is the number of non-empty lines.
C2_ValidSourceReturnsDeck ==
    (Finished /\ AllValid(src)) => result = Return(CardsOf(src))

\* C2, amended: for every readable source whose lines are all valid and not
\* all zero-length, the call returns the deck of one card per non-empty line,
\* in line order (Joker lines as JokerCard, ranks 11..13 as FaceCard, ranks
\* 1..10 as PlayingCard), so its size is the number of non-empty lines.
C2_ValidNonEmptySourceReturnsDeck ==
    (Finished /\ AllValid(src) /\ ~AllEmpty(src)) =>
        /\ result = Return(CardsOf(src))
        /\ Len(result.deck) = Cardinality({k \in 1..Len(src) : src[k] # <<>>})

\* A source with a zero-length line between two cards of different variants
\* has been read to the end.
C2_Witness ==
    /\ Finished /\ AllValid(src)
    /\ Len(src) = 3 /\ src[2] = <<>>
    /\ result.kind = "return"
    /\ Len(result.deck) = 2
    /\ result.deck[1].variant = "FaceCard"
    /\ result.deck[2].variant = "JokerCard"

\* C3: a readable source that yields no card (no lines, or zero-length lines
\* only) fails with EmptySource, an error whose message differs from that of
\* MalformedInput; and EmptySource is never the outcome of a source that
\* holds a malformed line.
C3_EmptySource ==
    Finished =>
        /\ AllEmpty(src) => (result = EmptySource /\ result.what # Malformed.what)
        /\ result = EmptySource => (AllValid(src) /\ AllEmpty(src))
        /\ ~AllValid(src) => result # EmptySource

\* A source of two zero-length lines has been read to the end.
C3_Witness ==
    /\ Finished
    /\ Len(src) = 2 /\ AllEmpty(src)
    /\ lineNo = 2
    /\ result = EmptySource

\* C4: a non-Joker line is accepted only if its right field is a base-10
\* integer string denoting a value in 1..13.
C4_RankIsStrictInteger ==
    \A k \in 1..Len(src) :
        ( /\ Finished /\ result.kind = "return"
          /\ HasComma(src[k])
          /\ LeftField(src[k]) # Joker )
        => IsRankString(RightField(src[k]))

\* C5: a line gives a JokerCard exactly when its left field is the string
\* "Joker", character for character, and then any non-empty right field is
\* the label; with any other left field the line gives a ranked card of that
\* suit with a rank in 1..13, or the call fails with MalformedInput.
C5_ExactJokerToken ==
    (Finished /\ Len(src) = 1 /\ src[1] # <<>> /\ HasComma(src[1])
       /\ LeftField(src[1]) # <<>> /\ RightField(src[1]) # <<>>) =>
        LET l == LeftField(src[1])
            r == RightField(src[1])
        IN  /\ l = Joker => result = Return(<<JokerCard(r)>>)
            /\ l # Joker =>
                 \/ result = Malformed
                 \/ /\ result.kind = "return"
                    /\ Len(result.deck) = 1
                    /\ result.deck[1].variant \in {"FaceCard", "PlayingCard"}
                    /\ result.deck[1].suit = l
                    /\ result.deck[1].rank \in 1..13
            /\ (l = <<"j", "o", "k", "e", "r">> /\ r = <<"5">>) =>
                 result = Return(<<PlayingCard(l, 5)>>)
            /\ (l = <<"j", "o", "k", "e", "r">> /\ r = <<"R">>) =>
                 result = Malformed

\* The line "joker,5" has been read and has given a card.
C5_Witness ==
    /\ Finished
    /\ src = << <<"j", "o", "k", "e", "r", ",", "5">> >>
    /\ result.kind = "return"
    /\ result.deck[1].variant = "PlayingCard"

\* C6: when the source cannot be opened the call fails with
\* UnreadableSource, an error that is neither MalformedInput nor
\* EmptySource, before a line is read or a card is constructed.
C6_UnreadableSource ==
    (pc = "done" /\ ~canOpen) =>
        /\ result = Throw("std::runtime_error", OpenMsg \o path)
        /\ result.what \notin {MalformedMsg, EmptyMsg}
        /\ lineNo = 0
        /\ deck = <<>>

\* The open of a file that holds lines has failed.
C6_Witness ==
    /\ pc = "done" /\ ~canOpen
    /\ Len(src) > 0
    /\ result.kind = "throw"

(***************************************************************************)
(* Claim about the comparisons, checked under CardSpec.                    *)
(***************************************************************************)

\* C7: the comparisons order cards by value() alone: of a<b, b<a, a==b
\* exactly one holds, a<b and b<c give a<c, and two cards of equal value are
\* == whatever their suits or variants.
C7_TotalOrderOnValue ==
    cmp.done =>
        /\ (cmp.ab /\ ~cmp.ba /\ ~cmp.eqab)
             \/ (~cmp.ab /\ cmp.ba /\ ~cmp.eqab)
             \/ (~cmp.ab /\ ~cmp.ba /\ cmp.eqab)
        /\ (cmp.ab /\ cmp.bc) => cmp.ac
        /\ cmp.eqab = cmp.eqba
        /\ value(ca) = value(cb) => cmp.eqab

\* Two cards of equal value and different suits, both below a Joker, have
\* been compared.
C7_Witness ==
    /\ cmp.done
    /\ ca.variant = "FaceCard" /\ cb.variant = "FaceCard"
    /\ ca.suit # cb.suit
    /\ cmp.eqab
    /\ cc.variant = "JokerCard"
    /\ cmp.bc /\ cmp.ac

(***************************************************************************)
(* Claims about the deck, checked under DeckSpec.                          *)
(***************************************************************************)

\* C8: each deck is a FIFO: the cards drawn so far followed by the cards
\* still in the deck are the cards added, in the order they were added (so
\* the k-th successful draw returned the k-th card added), and size() is the
\* number of adds minus the number of successful draws.
C8_Fifo ==
    \A i \in DeckIds :
        /\ drawn[i] \o decks[i] = added[i]
        /\ \A k \in 1..Len(drawn[i]) : drawn[i][k] = added[i][k]
        /\ size(decks[i]) = Len(added[i]) - Len(drawn[i])
        /\ (lastDraw.kind = "draw" /\ lastDraw.from = i /\ lastDraw.out.kind = "card")
             => lastDraw.out.card = added[i][Len(drawn[i])]

\* Adds and draws have interleaved on deck A: two different cards drawn, a
\* third added after the first draw and still in the deck.
C8_Witness ==
    /\ Len(drawn["A"]) = 2
    /\ drawn["A"][1] # drawn["A"][2]
    /\ Len(added["A"]) = 3
    /\ size(decks["A"]) = 1
    /\ lastDraw.kind = "draw" /\ lastDraw.from = "A" /\ lastDraw.out.kind = "card"

\* C9: drawFromTop on a deck of size 0 fails with EmptyDeck and changes no
\* deck: the sizes stay as they were and the record of adds and draws is
\* untouched, so a draw that empties a deck returns the card added last.
C9_DrawFromEmpty ==
    /\ [][\A i \in DeckIds :
         (DrawFromTop(i) /\ size(decks[i]) = 0) =>
            /\ lastDraw'.out = Throw("EmptyDeck", "EmptyDeck")
            /\ decks' = decks
            /\ size(decks'[i]) = 0
            /\ added' = added
            /\ drawn' = drawn]_vars
    /\ [](\A i \in DeckIds :
            ( /\ lastDraw.kind = "draw" /\ lastDraw.from = i
              /\ lastDraw.out.kind = "card" /\ decks[i] = <<>> )
            => (added[i] # <<>> /\ lastDraw.out.card = added[i][Len(added[i])]))

\* A draw has failed on a deck emptied by earlier draws while the other deck
\* holds cards.
C9_Witness ==
    /\ lastDraw.kind = "draw"
    /\ lastDraw.out.kind = "throw"
    /\ Len(drawn[lastDraw.from]) > 0
    /\ decks[lastDraw.from] = <<>>
    /\ \E j \in DeckIds : j # lastDraw.from /\ decks[j] # <<>>

(***************************************************************************)
(* Claim about the round logger, checked under WriterSpec.                 *)
(***************************************************************************)

\* C10: once the FileWriter is constructed, the log is the header line
\* followed by one record per writeRound call, in call order, whatever the
\* file held before; the i-th record carries the round number, the sizes of
\* decks A and B at that call and their quoted renderings; and writeRound
\* changes neither deck.
C10_LogIsHeaderThenRounds ==
    /\ [](writer = "open" =>
            /\ Len(file) = 1 + Len(calls)
            /\ file[1] = <<Header>>
            /\ \A n \in 1..Len(calls) :
                 LET rec == file[n + 1]
                 IN  /\ Len(rec) = 10
                     /\ rec[1] = IntToString(calls[n].round)
                     /\ rec[3] = IntToString(Len(calls[n].a))
                     /\ rec[5] = IntToString(Len(calls[n].b))
                     /\ rec[7] = render(calls[n].a)
                     /\ rec[9] = render(calls[n].b)
                     /\ <<rec[2], rec[4], rec[6], rec[8], rec[10]>>
                          = <<",", ",", ",\"", "\",\"", "\"">>)
    /\ [][calls' # calls => decks' = decks]_vars

\* Two rounds have been logged, with a draw from deck A between them.
C10_Witness ==
    /\ writer = "open"
    /\ Len(calls) = 2
    /\ Len(calls[1].a) = 3
    /\ Len(calls[2].a) = 2
    /\ calls[1].round # calls[2].round

====
